---- MODULE Spec2Model ----
(***************************************************************************)
(* State-machine model of three units of the lightdash repository:         *)
(*                                                                         *)
(*   - SemanticLayerService (backend): the permission gate, the choice of  *)
(*     the semantic-layer client and the delegation to it or to the        *)
(*     scheduler;                                                          *)
(*   - useSqlQueryRun (frontend hook): schedule a job, await it, fetch the *)
(*     results stream, with the keep-previous-data simulation;             *)
(*   - CreateGroupModal (frontend component): validated form submission.   *)
(*                                                                         *)
(* The units share no state, so each has its own next-state relation and   *)
(* specification (SpecService, SpecQueryRun, SpecCreateGroup); Spec is     *)
(* their interleaving.                                                     *)
(***************************************************************************)
EXTENDS Integers, Sequences, FiniteSets, TLC

VARIABLES
    \* ---- SemanticLayerService ----
    lightdashConfig,    \* the four configuration values read by getSemanticLayerClient
    jobs,               \* the scheduler's queue of submitted job payloads
    nextJobId,          \* the id the scheduler gives to the next submitted job
    lastCall,           \* the last service call: who, what, its trace of collaborator calls, its outcome
    \* ---- useSqlQueryRun ----
    data,               \* useState: the data of the last successful run
    previousDataRef,    \* useRef: the data saved by onMutate
    runs,               \* the mutations started so far, one record per mutate call
    currentMutation,    \* the mutation the observer follows (0: none yet)
    \* ---- CreateGroupModal ----
    form,               \* useForm: values.name and errors.name
    mutation,           \* useGroupCreateMutation: isLoading and the variables in flight
    groups,             \* the groups the mutation has created
    handlerLog,         \* what the last onSubmit did, in order
    submits             \* the number of submit events so far

serviceVars == <<lightdashConfig, jobs, nextJobId, lastCall>>
hookVars == <<data, previousDataRef, runs, currentMutation>>
modalVars == <<form, mutation, groups, handlerLog, submits>>
vars == <<lightdashConfig, jobs, nextJobId, lastCall,
          data, previousDataRef, runs, currentMutation,
          form, mutation, groups, handlerLog, submits>>

(***************************************************************************)
(* Bounds of the model.                                                    *)
(***************************************************************************)
\* jobs the scheduler accepts in one behaviour
MaxJobs == 2
\* mutate calls of useSqlQueryRun in one behaviour
MaxRuns == 2
\* length of a typed group name
MaxNameLen == 2
\* submit events of the create-group form in one behaviour
MaxSubmits == 2

(***************************************************************************)
(* SemanticLayerService                                                    *)
(***************************************************************************)

\* A configuration value is a string or undefined.
Undefined == "<undefined>"
ConfigValues == {Undefined, "", "secret"}

\* JavaScript's !!v on a string | undefined.
Truthy(v) == v # Undefined /\ v # ""

\* The projects the project model holds, with their organization.
Projects == [p1 |-> "org1", p2 |-> "org2"]
ProjectUuids == {"p1", "p2", "gone"}

\* The session users and the rules of their CASL ability:
\* a rule allows an action on the projects matching its conditions ("*": any).
Users == {"admin", "viewer", "editor", "outsider"}
Ability ==
    [admin |-> {[action |-> "manage", organizationUuid |-> "org1", projectUuid |-> "*"]},
     viewer |-> {[action |-> "view", organizationUuid |-> "org2", projectUuid |-> "p2"]},
     editor |-> {[action |-> "create", organizationUuid |-> "org1", projectUuid |-> "p1"]},
     outsider |-> {}]

RuleMatches(rule, action, subj) ==
    /\ rule.action \in {action, "manage"}
    /\ rule.organizationUuid \in {subj.organizationUuid, "*"}
    /\ rule.projectUuid \in {subj.projectUuid, "*"}

cannot_never(ability, action, subj) == FALSE

\* user.ability.cannot(action, subject('Project', subj))
cannot(ability, action, subj) ==
    ~ \E rule \in ability : RuleMatches(rule, action, subj)

\* this.projectModel.get(projectUuid): the project, or NotExistsError.
projectModel_get(projectUuid) ==
    IF projectUuid \in DOMAIN Projects
    THEN [threw |-> "none", organizationUuid |-> Projects[projectUuid]]
    ELSE [threw |-> "NotExistsError", organizationUuid |-> "none"]

\* A collaborator call in a trace: <<object, method>>.
Ev(obj, method) == <<obj, method>>

checkCanViewProject_unchecked(user, projectUuid) ==
    LET project == projectModel_get(projectUuid) IN
    [trace |-> <<Ev("projectModel", "get")>>, threw |-> project.threw]

checkCanViewProject(user, projectUuid) ==
    LET project == projectModel_get(projectUuid) IN
    IF project.threw # "none"
    THEN [trace |-> <<Ev("projectModel", "get")>>, threw |-> project.threw]
    ELSE IF cannot(Ability[user], "view",
                   [organizationUuid |-> project.organizationUuid,
                    projectUuid |-> projectUuid])
         THEN [trace |-> <<Ev("projectModel", "get"), Ev("ability", "cannot")>>,
               threw |-> "ForbiddenError"]
         ELSE [trace |-> <<Ev("projectModel", "get"), Ev("ability", "cannot")>>,
               threw |-> "none"]

getSemanticLayerClient_cubeFirst(config, projectUuid) ==
    IF Truthy(config.cube.token) /\ Truthy(config.cube.domain)
    THEN [threw |-> "none", client |-> "cubeClient"]
    ELSE IF Truthy(config.dbtCloud.bearerToken) /\ Truthy(config.dbtCloud.environmentId)
         THEN [threw |-> "none", client |-> "dbtCloudClient"]
         ELSE [threw |-> "MissingConfigError", client |-> "none"]

getSemanticLayerClient_eitherValue(config, projectUuid) ==
    IF Truthy(config.dbtCloud.bearerToken) \/ Truthy(config.dbtCloud.environmentId)
    THEN [threw |-> "none", client |-> "dbtCloudClient"]
    ELSE IF Truthy(config.cube.token) \/ Truthy(config.cube.domain)
         THEN [threw |-> "none", client |-> "cubeClient"]
         ELSE [threw |-> "MissingConfigError", client |-> "none"]

getSemanticLayerClient(config, projectUuid) ==
    IF Truthy(config.dbtCloud.bearerToken) /\ Truthy(config.dbtCloud.environmentId)
    THEN [threw |-> "none", client |-> "dbtCloudClient"]
    ELSE IF Truthy(config.cube.token) /\ Truthy(config.cube.domain)
         THEN [threw |-> "none", client |-> "cubeClient"]
         ELSE [threw |-> "MissingConfigError", client |-> "none"]

\* The outcome of a handler: the collaborator calls it made, in order, the error
\* it rejected with ("none": it resolved), the client it selected and whether it
\* submitted a scheduler job.
Outcome(trace, threw, client, submitted) ==
    [trace |-> trace, threw |-> threw, client |-> client, submitted |-> submitted]

\* A call on a collaborator outside the service resolves or rejects.
ExtOutcomes == {"resolves", "rejects"}
ExtThrew(ext) == IF ext = "rejects" THEN "ExternalError" ELSE "none"

\* The tail shared by getFields and getSql: select the client, call `method` on it.
SelectAndCall(config, projectUuid, prefix, method, ext) ==
    LET sel == getSemanticLayerClient(config, projectUuid)
        t1 == Append(prefix, Ev("this", "getSemanticLayerClient"))
    IN  IF sel.threw # "none"
        THEN Outcome(t1, sel.threw, "none", FALSE)
        ELSE Outcome(Append(t1, Ev(sel.client, method)), ExtThrew(ext), sel.client, FALSE)

getViews(config, user, projectUuid, ext) ==
    LET chk == checkCanViewProject(user, projectUuid) IN
    IF chk.threw # "none"
    THEN Outcome(chk.trace, chk.threw, "none", FALSE)
    ELSE SelectAndCall(config, projectUuid,
                       Append(chk.trace, Ev("analytics", "wrapEvent")), "getViews", ext)

getFields_clientFirst(config, user, projectUuid, ext) ==
    LET sel == getSemanticLayerClient(config, projectUuid)
        chk == checkCanViewProject(user, projectUuid)
        t1 == <<Ev("this", "getSemanticLayerClient")>>
    IN  IF sel.threw # "none"
        THEN Outcome(t1, sel.threw, "none", FALSE)
        ELSE IF chk.threw # "none"
        THEN Outcome(t1 \o chk.trace, chk.threw, sel.client, FALSE)
        ELSE Outcome((t1 \o chk.trace) \o <<Ev(sel.client, "getFields")>>,
                     ExtThrew(ext), sel.client, FALSE)

getFields(config, user, projectUuid, ext) ==
    LET chk == checkCanViewProject(user, projectUuid) IN
    IF chk.threw # "none"
    THEN Outcome(chk.trace, chk.threw, "none", FALSE)
    ELSE SelectAndCall(config, projectUuid, chk.trace, "getFields", ext)

getSql(config, user, projectUuid, ext) ==
    LET chk == checkCanViewProject(user, projectUuid) IN
    IF chk.threw # "none"
    THEN Outcome(chk.trace, chk.threw, "none", FALSE)
    ELSE SelectAndCall(config, projectUuid, chk.trace, "getSql", ext)

getStreamingResults_submitFirst(config, user, projectUuid, ext) ==
    LET chk == checkCanViewProject(user, projectUuid) IN
    IF chk.threw # "none"
    THEN Outcome(chk.trace, chk.threw, "none", FALSE)
    ELSE LET sel == getSemanticLayerClient(config, projectUuid)
             t1 == Append(chk.trace, Ev("schedulerClient", "semanticLayerStreamingResults"))
         IN  IF ext = "rejects"
             THEN Outcome(t1, "ExternalError", "none", FALSE)
             ELSE Outcome(Append(t1, Ev("this", "getSemanticLayerClient")),
                          sel.threw, sel.client, TRUE)

getStreamingResults(config, user, projectUuid, ext) ==
    LET chk == checkCanViewProject(user, projectUuid) IN
    IF chk.threw # "none"
    THEN Outcome(chk.trace, chk.threw, "none", FALSE)
    ELSE LET sel == getSemanticLayerClient(config, projectUuid)
             t1 == Append(chk.trace, Ev("this", "getSemanticLayerClient"))
         IN  IF sel.threw # "none"
             THEN Outcome(t1, sel.threw, "none", FALSE)
             ELSE Outcome(Append(t1, Ev("schedulerClient", "semanticLayerStreamingResults")),
                          ExtThrew(ext), sel.client, ext = "resolves")

\* streamQueryIntoFile takes the job's payload: a userUuid, no session user.
streamQueryIntoFile(config, payload, ext) ==
    LET sel == getSemanticLayerClient(config, payload.projectUuid)
        t1 == <<Ev("this", "getSemanticLayerClient")>>
    IN  IF sel.threw # "none"
        THEN Outcome(t1, sel.threw, "none", FALSE)
        ELSE Outcome(t1 \o <<Ev("downloadFileModel", "streamFunction"),
                             Ev(sel.client, "streamResults")>>,
                     ExtThrew(ext), sel.client, FALSE)

Call(method, user, projectUuid, out, jobId) ==
    [method |-> method, user |-> user, projectUuid |-> projectUuid,
     trace |-> out.trace, threw |-> out.threw, client |-> out.client,
     submitted |-> out.submitted, jobId |-> jobId]

NoCall ==
    [method |-> "none", user |-> "none", projectUuid |-> "none",
     trace |-> <<>>, threw |-> "none", client |-> "none",
     submitted |-> FALSE, jobId |-> 0]

\* A handler that submits no job.
ServiceCall(method, user, projectUuid, out) ==
    /\ lastCall' = Call(method, user, projectUuid, out, 0)
    /\ UNCHANGED <<lightdashConfig, jobs, nextJobId>>
    /\ UNCHANGED hookVars
    /\ UNCHANGED modalVars

GetViews ==
    \E user \in Users, projectUuid \in ProjectUuids, ext \in ExtOutcomes :
        ServiceCall("getViews", user, projectUuid,
                    getViews(lightdashConfig, user, projectUuid, ext))

GetFields ==
    \E user \in Users, projectUuid \in ProjectUuids, ext \in ExtOutcomes :
        ServiceCall("getFields", user, projectUuid,
                    getFields(lightdashConfig, user, projectUuid, ext))

GetSql ==
    \E user \in Users, projectUuid \in ProjectUuids, ext \in ExtOutcomes :
        ServiceCall("getSql", user, projectUuid,
                    getSql(lightdashConfig, user, projectUuid, ext))

\* On success the scheduler queues the payload and its job id is returned.
GetStreamingResults ==
    /\ nextJobId <= MaxJobs
    /\ \E user \in Users, projectUuid \in ProjectUuids, ext \in ExtOutcomes :
        LET out == getStreamingResults(lightdashConfig, user, projectUuid, ext) IN
        /\ lastCall' = Call("getStreamingResults", user, projectUuid, out,
                            IF out.submitted THEN nextJobId ELSE 0)
        /\ jobs' = IF out.submitted
                   THEN Append(jobs, [jobId |-> nextJobId, userUuid |-> user,
                                      projectUuid |-> projectUuid])
                   ELSE jobs
        /\ nextJobId' = IF out.submitted THEN nextJobId + 1 ELSE nextJobId
    /\ UNCHANGED lightdashConfig
    /\ UNCHANGED hookVars
    /\ UNCHANGED modalVars

\* The scheduler's worker takes the oldest job and runs streamQueryIntoFile on its payload.
StreamQueryIntoFile ==
    /\ jobs # <<>>
    /\ \E ext \in ExtOutcomes :
        LET payload == Head(jobs) IN
        lastCall' = Call("streamQueryIntoFile", payload.userUuid, payload.projectUuid,
                         streamQueryIntoFile(lightdashConfig, payload, ext), 0)
    /\ jobs' = Tail(jobs)
    /\ UNCHANGED <<lightdashConfig, nextJobId>>
    /\ UNCHANGED hookVars
    /\ UNCHANGED modalVars

InitService ==
    /\ lightdashConfig \in
         [dbtCloud : [bearerToken : ConfigValues, environmentId : ConfigValues],
          cube : [token : ConfigValues, domain : ConfigValues]]
    /\ jobs = <<>>
    /\ nextJobId = 1
    /\ lastCall = NoCall

NextService ==
    \/ GetViews
    \/ GetFields
    \/ GetSql
    \/ GetStreamingResults
    \/ StreamQueryIntoFile

(***************************************************************************)
(* useSqlQueryRun                                                          *)
(***************************************************************************)

\* ResultsAndColumns | undefined: <<>> is undefined, otherwise <<results, columns>>.
NoData == <<>>
Rows == {"rowsA", "rowsB"}
ResultsAndColumns(results, columns) == <<results, columns>>

\* SchedulerJobStatus, and the three shapes of a job's details.
JobDetails == {"null", "errorDetails", "fileDetails"}

\* isErrorDetails(details): the details carry an error message.
isErrorDetails(details) == details = "errorDetails"

\* The awaited calls of the mutation function, in the order the code makes them.
Loading == {"scheduleSqlJob", "getSqlRunnerCompleteJob", "getResultsFromStream"}

NoRun ==
    [pc |-> "unused", job |-> [status |-> "none", details |-> "null"],
     log |-> <<>>, toasts |-> 0, result |-> NoData, onSuccessArgs |-> <<>>,
     exposedBefore |-> NoData]

RunIds == 1 .. MaxRuns

\* useMutation's isLoading: the state of the mutation the observer follows.
isLoading == currentMutation # 0 /\ runs[currentMutation].pc \in Loading

\* const currentData = isLoading ? previousDataRef.current : data
currentData == IF isLoading THEN previousDataRef ELSE data

\* The scheduler answers the POST with a job id, or the request fails.
ScheduleSqlJobResolves(r) ==
    /\ runs[r].pc = "scheduleSqlJob"
    /\ runs' = [runs EXCEPT ![r].pc = "getSqlRunnerCompleteJob",
                            ![r].job = [status |-> "scheduled", details |-> "null"],
                            ![r].log = Append(@, "getSqlRunnerCompleteJob")]
    /\ UNCHANGED <<data, previousDataRef, currentMutation>>
    /\ UNCHANGED serviceVars
    /\ UNCHANGED modalVars

\* onError of the mutation: one toast, the data is left alone.
onError(r) ==
    /\ runs' = [runs EXCEPT ![r].pc = "error", ![r].toasts = @ + 1]
    /\ UNCHANGED <<data, previousDataRef, currentMutation>>
    /\ UNCHANGED serviceVars
    /\ UNCHANGED modalVars

ScheduleSqlJobRejects(r) ==
    /\ runs[r].pc = "scheduleSqlJob"
    /\ onError(r)

\* The scheduler's worker picks the job up ...
JobStarts(r) ==
    /\ runs[r].job.status = "scheduled"
    /\ runs' = [runs EXCEPT ![r].job.status = "started"]
    /\ UNCHANGED <<data, previousDataRef, currentMutation>>
    /\ UNCHANGED serviceVars
    /\ UNCHANGED modalVars

\* ... and ends it, completed or in error, with some details.
JobFinishes(r) ==
    /\ runs[r].job.status = "started"
    /\ \E status \in {"completed", "error"}, details \in JobDetails :
        runs' = [runs EXCEPT ![r].job = [status |-> status, details |-> details]]
    /\ UNCHANGED <<data, previousDataRef, currentMutation>>
    /\ UNCHANGED serviceVars
    /\ UNCHANGED modalVars

\* getSqlRunnerCompleteJob polls until the job has ended.
JobEnded(job) == job.status \in {"completed", "error"}

afterCompleteJob_alwaysFetch(job) ==
    [toast |-> job.status = "error" /\ isErrorDetails(job.details),
     returnsUndefined |-> FALSE,
     url |-> IF job.details # "null" /\ ~isErrorDetails(job.details)
             THEN "fileUrl" ELSE Undefined]

\* The mutation function between the job's end and its next await: whether it
\* toasts, whether it returns undefined, and the url it fetches otherwise.
afterCompleteJob(job) ==
    IF job.status = "error"
    THEN [toast |-> isErrorDetails(job.details), returnsUndefined |-> TRUE,
          url |-> Undefined]
    ELSE [toast |-> FALSE, returnsUndefined |-> FALSE,
          url |-> IF job.details # "null" /\ ~isErrorDetails(job.details)
                  THEN "fileUrl" ELSE Undefined]

\* The mutation resolves with newData: setData(newData); onSuccess(newData).
onSuccess(r, newData, toast) ==
    /\ runs' = [runs EXCEPT ![r].pc = "success",
                            ![r].result = newData,
                            ![r].toasts = IF toast THEN @ + 1 ELSE @,
                            ![r].onSuccessArgs = Append(@, newData)]
    /\ data' = newData
    /\ UNCHANGED <<previousDataRef, currentMutation>>
    /\ UNCHANGED serviceVars
    /\ UNCHANGED modalVars

GetSqlRunnerCompleteJobResolves(r) ==
    /\ runs[r].pc = "getSqlRunnerCompleteJob"
    /\ JobEnded(runs[r].job)
    /\ LET next == afterCompleteJob(runs[r].job) IN
       IF next.returnsUndefined
       THEN onSuccess(r, NoData, next.toast)
       ELSE /\ runs' = [runs EXCEPT ![r].pc = "getResultsFromStream",
                                    ![r].toasts = IF next.toast THEN @ + 1 ELSE @,
                                    ![r].log = Append(@, "getResultsFromStream")]
            /\ UNCHANGED <<data, previousDataRef, currentMutation>>
            /\ UNCHANGED serviceVars
            /\ UNCHANGED modalVars

\* A status request of the poll fails.
GetSqlRunnerCompleteJobRejects(r) ==
    /\ runs[r].pc = "getSqlRunnerCompleteJob"
    /\ onError(r)

\* The columns the mutation function returns with the streamed results.
columnsOf(job) ==
    IF job.details # "null" /\ ~isErrorDetails(job.details) THEN "columns" ELSE "[]"

GetResultsFromStreamResolves(r) ==
    /\ runs[r].pc = "getResultsFromStream"
    /\ \E results \in Rows :
        onSuccess(r, ResultsAndColumns(results, columnsOf(runs[r].job)), FALSE)

GetResultsFromStreamRejects(r) ==
    /\ runs[r].pc = "getResultsFromStream"
    /\ onError(r)

\* mutate({sql, limit}): a new mutation, which the observer follows from now on;
\* onMutate saves the data, then the mutation function calls scheduleSqlJob.
Mutate ==
    /\ \E r \in RunIds :
        /\ runs[r].pc = "unused"
        /\ \A q \in RunIds : q < r => runs[q].pc # "unused"
        /\ runs' = [runs EXCEPT ![r].pc = "scheduleSqlJob",
                                ![r].log = <<"scheduleSqlJob">>,
                                ![r].exposedBefore = currentData]
        /\ currentMutation' = r
    /\ previousDataRef' = data
    /\ UNCHANGED data
    /\ UNCHANGED serviceVars
    /\ UNCHANGED modalVars

InitQueryRun ==
    /\ data = NoData
    /\ previousDataRef = NoData
    /\ runs = [r \in RunIds |-> NoRun]
    /\ currentMutation = 0

NextQueryRun ==
    \/ Mutate
    \/ \E r \in RunIds : ScheduleSqlJobResolves(r)
    \/ \E r \in RunIds : ScheduleSqlJobRejects(r)
    \/ \E r \in RunIds : JobStarts(r)
    \/ \E r \in RunIds : JobFinishes(r)
    \/ \E r \in RunIds : GetSqlRunnerCompleteJobResolves(r)
    \/ \E r \in RunIds : GetSqlRunnerCompleteJobRejects(r)
    \/ \E r \in RunIds : GetResultsFromStreamResolves(r)
    \/ \E r \in RunIds : GetResultsFromStreamRejects(r)

(***************************************************************************)
(* CreateGroupModal                                                        *)
(***************************************************************************)

\* The modal as a user who may manage groups sees it (otherwise it renders nothing).
\* A group name is a string, modelled as the sequence of its characters.
Chars == {" ", "a"}
Names == UNION {[1 .. n -> Chars] : n \in 0 .. MaxNameLen}

RECURSIVE trimStart(_)
trimStart(s) == IF s # <<>> /\ Head(s) = " " THEN trimStart(Tail(s)) ELSE s

RECURSIVE trimEnd(_)
trimEnd(s) ==
    IF s # <<>> /\ s[Len(s)] = " " THEN trimEnd(SubSeq(s, 1, Len(s) - 1)) ELSE s

\* String.prototype.trim
trim(s) == trimEnd(trimStart(s))

validateName_untrimmed(value) ==
    IF Len(value) # 0 THEN "null" ELSE "Group name is required"

\* validate.name: (value) => value.trim().length ? null : 'Group name is required'
validateName(value) ==
    IF Len(trim(value)) # 0 THEN "null" ELSE "Group name is required"

initialValues == [name |-> <<>>]

\* How often `event` is in the log.
Count(log, event) == Cardinality({i \in DOMAIN log : log[i] = event})

\* The user types in the text input, which is disabled while the mutation is
\* loading; the input's onChange sets the value and clears the field's error.
ChangeName ==
    /\ ~mutation.isLoading
    /\ \E value \in Names :
        /\ value # form.values.name
        /\ form' = [values |-> [name |-> value], errors |-> [name |-> "null"]]
    /\ UNCHANGED <<mutation, groups, handlerLog, submits>>
    /\ UNCHANGED serviceVars
    /\ UNCHANGED hookVars

\* handleSubmit up to its await: mutateAsync(data) is called with the form's values.
handleSubmit(values) ==
    /\ mutation' = [isLoading |-> TRUE, variables |-> values.name]
    /\ form' = [form EXCEPT !.errors = [name |-> "null"]]
    /\ handlerLog' = handlerLog \o <<"validate", "mutateAsync">>

\* form.onSubmit(handleSubmit): validate, and call the handler only without errors.
\* The submit button and the input are disabled while the mutation is loading.
Submit ==
    /\ ~mutation.isLoading
    /\ submits < MaxSubmits
    /\ submits' = submits + 1
    /\ IF validateName(form.values.name) # "null"
       THEN /\ form' = [form EXCEPT !.errors = [name |-> validateName(form.values.name)]]
            /\ handlerLog' = Append(handlerLog, "validate")
            /\ UNCHANGED mutation
       ELSE handleSubmit(form.values)
    /\ UNCHANGED groups
    /\ UNCHANGED serviceVars
    /\ UNCHANGED hookVars

\* await mutateAsync(data) resolves: form.reset(); onClose().
MutateAsyncResolves ==
    /\ mutation.isLoading
    /\ mutation' = [mutation EXCEPT !.isLoading = FALSE]
    /\ groups' = Append(groups, mutation.variables)
    /\ form' = [values |-> initialValues, errors |-> [name |-> "null"]]
    /\ handlerLog' = handlerLog \o <<"resolved", "form.reset", "onClose">>
    /\ UNCHANGED submits
    /\ UNCHANGED serviceVars
    /\ UNCHANGED hookVars

\* await mutateAsync(data) rejects: the handler stops there.
MutateAsyncRejects ==
    /\ mutation.isLoading
    /\ mutation' = [mutation EXCEPT !.isLoading = FALSE]
    /\ handlerLog' = Append(handlerLog, "rejected")
    /\ UNCHANGED <<form, groups, submits>>
    /\ UNCHANGED serviceVars
    /\ UNCHANGED hookVars

InitModal ==
    /\ form = [values |-> initialValues, errors |-> [name |-> "null"]]
    /\ mutation = [isLoading |-> FALSE, variables |-> <<>>]
    /\ groups = <<>>
    /\ handlerLog = <<>>
    /\ submits = 0

NextCreateGroup ==
    \/ ChangeName
    \/ Submit
    \/ MutateAsyncResolves
    \/ MutateAsyncRejects

(***************************************************************************)
(* Specifications                                                          *)
(***************************************************************************)

Init == InitService /\ InitQueryRun /\ InitModal

Next == NextService \/ NextQueryRun \/ NextCreateGroup

\* The three units together.
Spec == Init /\ [][Next]_vars

\* The backend service alone, under every configuration.
SpecService == Init /\ [][NextService]_vars

\* A frontend unit alone: the backend stays as constructed, with no semantic
\* layer configured.
InitFrontend ==
    /\ lightdashConfig = [dbtCloud |-> [bearerToken |-> Undefined, environmentId |-> Undefined],
                          cube |-> [token |-> Undefined, domain |-> Undefined]]
    /\ jobs = <<>>
    /\ nextJobId = 1
    /\ lastCall = NoCall
    /\ InitQueryRun
    /\ InitModal

SpecQueryRun == InitFrontend /\ [][NextQueryRun]_vars
SpecCreateGroup == InitFrontend /\ [][NextCreateGroup]_vars

(***************************************************************************)
(* Properties of SemanticLayerService                                      *)
(***************************************************************************)

\* The entry points that take a session user.
UserFacing == {"getViews", "getFields", "getSql", "getStreamingResults"}

\* The permissions as the fixtures intend them, stated without the ability's rules:
\* admin manages org1 (p1), viewer views p2, editor may only create, outsider has no rule.
ProjectExists(projectUuid) == projectUuid \in {"p1", "p2"}
MayView(user, projectUuid) ==
    \/ user = "admin" /\ projectUuid = "p1"
    \/ user = "viewer" /\ projectUuid = "p2"
Forbidden(user, projectUuid) == ProjectExists(projectUuid) /\ ~MayView(user, projectUuid)

\* A pair of configuration values is set when both are non-empty strings.
IsSet(v) == v \notin {Undefined, ""}
DbtCloudSet == IsSet(lightdashConfig.dbtCloud.bearerToken) /\ IsSet(lightdashConfig.dbtCloud.environmentId)
CubeSet == IsSet(lightdashConfig.cube.token) /\ IsSet(lightdashConfig.cube.domain)

\* Where in a trace the calls on `objs` are.
CallsOn(trace, objs) == {i \in DOMAIN trace : trace[i][1] \in objs}
Clients == {"cubeClient", "dbtCloudClient"}
Selected(call) == CallsOn(call.trace, {"this"}) # {}

\* A call that begins with the project lookup and then the ability check.
ChecksFirst(call) ==
    /\ call.trace # <<>>
    /\ call.trace[1] = Ev("projectModel", "get")
    /\ ProjectExists(call.projectUuid) =>
         Len(call.trace) >= 2 /\ call.trace[2] = Ev("ability", "cannot")
    /\ Forbidden(call.user, call.projectUuid) =>
         call.threw = "ForbiddenError" /\ Len(call.trace) = 2

\* C1 as stated: every entry point, streamQueryIntoFile included, first resolves
\* the project and checks the caller's 'view' permission, rejecting with
\* ForbiddenError when the check fails.
C1_EveryEntryPointChecksFirst ==
    lastCall.method # "none" => ChecksFirst(lastCall)

\* C1 as amended: the four entry points that take a session user first resolve the
\* project and check the 'view' permission, rejecting with ForbiddenError when the
\* check fails; streamQueryIntoFile, which takes the job payload, makes no project
\* lookup and no permission check.
C1_UserFacingEntryPointsCheckFirst ==
    /\ lastCall.method \in UserFacing => ChecksFirst(lastCall)
    /\ lastCall.method = "streamQueryIntoFile" =>
         CallsOn(lastCall.trace, {"projectModel", "ability"}) = {}

C1_Witness ==
    /\ lastCall.method = "getStreamingResults"
    /\ Forbidden(lastCall.user, lastCall.projectUuid)
    /\ lastCall.threw = "ForbiddenError"

\* C2: a call of getViews, getFields, getSql or getStreamingResults by a user who
\* cannot view the project calls neither semantic-layer client and submits no
\* scheduler job, under every configuration; so no queued job is a forbidden user's.
C2_ForbiddenUserReachesNoClient ==
    /\ (lastCall.method \in UserFacing /\ ~MayView(lastCall.user, lastCall.projectUuid)) =>
         /\ CallsOn(lastCall.trace, Clients \cup {"schedulerClient"}) = {}
         /\ ~lastCall.submitted
         /\ lastCall.jobId = 0
    /\ \A i \in DOMAIN jobs : MayView(jobs[i].userUuid, jobs[i].projectUuid)

C2_Witness ==
    /\ lastCall.method = "getFields"
    /\ Forbidden(lastCall.user, lastCall.projectUuid)
    /\ DbtCloudSet /\ CubeSet
    /\ jobs # <<>>

\* C3: dbt Cloud is checked first: with both dbt Cloud values set the dbt Cloud
\* client is selected whatever the Cube values are; the Cube client is selected
\* only when the dbt Cloud pair is incomplete and both Cube values are set.
C3_DbtCloudTakesPrecedence ==
    Selected(lastCall) =>
        /\ DbtCloudSet => lastCall.client = "dbtCloudClient"
        /\ lastCall.client = "cubeClient" <=> (~DbtCloudSet /\ CubeSet)
        /\ \A i \in CallsOn(lastCall.trace, Clients) : lastCall.trace[i][1] = lastCall.client

C3_Witness ==
    /\ Selected(lastCall)
    /\ DbtCloudSet /\ CubeSet
    /\ lastCall.client = "dbtCloudClient"
    /\ CallsOn(lastCall.trace, {"dbtCloudClient"}) # {}

\* C4: with neither pair set (a pair is set only when both of its values are
\* non-empty) getSemanticLayerClient throws MissingConfigError and no client is
\* returned or called; one value of each pair is not enough.
C4_MissingConfigError ==
    Selected(lastCall) =>
        /\ lastCall.threw = "MissingConfigError" <=> (~DbtCloudSet /\ ~CubeSet)
        /\ lastCall.threw = "MissingConfigError" =>
             /\ lastCall.client = "none"
             /\ CallsOn(lastCall.trace, Clients \cup {"schedulerClient"}) = {}

C4_Witness ==
    /\ Selected(lastCall)
    /\ lastCall.threw = "MissingConfigError"
    /\ IsSet(lightdashConfig.dbtCloud.bearerToken) /\ ~IsSet(lightdashConfig.dbtCloud.environmentId)
    /\ ~IsSet(lightdashConfig.cube.token) /\ IsSet(lightdashConfig.cube.domain)

\* C7: getStreamingResults submits a job only after the permission check and the
\* client-availability check have both succeeded: none on MissingConfigError, and
\* on success exactly one, whose job id is the one returned.
C7_SubmitsAfterBothChecks ==
    lastCall.method = "getStreamingResults" =>
        LET sub == CallsOn(lastCall.trace, {"schedulerClient"}) IN
        /\ sub # {} =>
             /\ sub = {Len(lastCall.trace)}
             /\ SubSeq(lastCall.trace, 1, Len(lastCall.trace) - 1) =
                  <<Ev("projectModel", "get"), Ev("ability", "cannot"),
                    Ev("this", "getSemanticLayerClient")>>
             /\ MayView(lastCall.user, lastCall.projectUuid)
             /\ DbtCloudSet \/ CubeSet
        /\ lastCall.submitted => sub # {}
        /\ lastCall.threw = "MissingConfigError" => sub = {} /\ ~lastCall.submitted
        /\ lastCall.threw = "none" =>
             /\ Cardinality(sub) = 1
             /\ lastCall.submitted
             /\ jobs # <<>>
             /\ jobs[Len(jobs)] = [jobId |-> lastCall.jobId, userUuid |-> lastCall.user,
                                   projectUuid |-> lastCall.projectUuid]
             /\ lastCall.jobId = nextJobId - 1
        /\ lastCall.threw # "none" => lastCall.jobId = 0

C7_Witness ==
    /\ lastCall.method = "getStreamingResults"
    /\ lastCall.threw = "none"
    /\ lastCall.jobId = 2
    /\ Len(jobs) = 2

\* C9: in the four user-facing entry points the permission check precedes the
\* client selection: a forbidden user gets ForbiddenError, never MissingConfigError,
\* even with nothing configured, and MissingConfigError only reaches a user who
\* passed the check.
C9_ForbiddenBeforeMissingConfig ==
    lastCall.method \in UserFacing =>
        /\ Forbidden(lastCall.user, lastCall.projectUuid) =>
             lastCall.threw = "ForbiddenError" /\ ~Selected(lastCall)
        /\ lastCall.threw = "MissingConfigError" =>
             /\ MayView(lastCall.user, lastCall.projectUuid)
             /\ \A i \in CallsOn(lastCall.trace, {"this"}) :
                  \E j \in CallsOn(lastCall.trace, {"ability"}) : j < i

C9_Witness ==
    /\ lastCall.method = "getFields"
    /\ Forbidden(lastCall.user, lastCall.projectUuid)
    /\ ~DbtCloudSet /\ ~CubeSet
    /\ lastCall.threw = "ForbiddenError"

(***************************************************************************)
(* Properties of useSqlQueryRun                                            *)
(***************************************************************************)

\* C5 as stated: every run whose job ended in ERROR, or whose scheduling, polling
\* or stream fetch failed, has shown at least one error toast.
C5_EveryFailureToasts ==
    \A r \in RunIds :
        (\/ runs[r].pc = "error"
         \/ runs[r].pc = "success" /\ runs[r].job.status = "error")
        => runs[r].toasts >= 1

\* C6: each run makes its calls in the order scheduleSqlJob, getSqlRunnerCompleteJob,
\* getResultsFromStream, each at most once and scheduleSqlJob exactly once; the
\* stream is fetched only after the job has ended with a status other than ERROR;
\* a run whose job ended in ERROR never fetches it and resolves to undefined.
C6_ScheduleAwaitFetch ==
    \A r \in RunIds :
        LET run == runs[r]
            order == <<"scheduleSqlJob", "getSqlRunnerCompleteJob", "getResultsFromStream">>
        IN  /\ Len(run.log) <= 3
            /\ run.log = SubSeq(order, 1, Len(run.log))
            /\ run.pc # "unused" => Count(run.log, "scheduleSqlJob") = 1
            /\ Count(run.log, "getResultsFromStream") = 1 =>
                 JobEnded(run.job) /\ run.job.status # "error"
            /\ (run.pc = "success" /\ run.job.status = "error") =>
                 run.result = NoData /\ run.onSuccessArgs = <<NoData>>
            /\ (run.pc = "success" /\ run.job.status # "error") =>
                 Len(run.log) = 3 /\ run.result # NoData

C6_Witness ==
    \E r, q \in RunIds :
        /\ runs[r].pc = "success" /\ runs[r].job.status = "error"
        /\ runs[q].pc = "success" /\ Len(runs[q].log) = 3

\* C8 as stated: while a run is loading the exposed data is the data exposed just
\* before that run started; when a run succeeds the exposed data is that run's
\* result, and onSuccess was called with that value.
C8_KeepPreviousData ==
    [][/\ isLoading' => currentData' = runs'[currentMutation'].exposedBefore
       /\ \A r \in RunIds :
            (runs[r].pc # "success" /\ runs'[r].pc = "success") =>
                /\ currentData' = runs'[r].result
                /\ runs'[r].onSuccessArgs = <<runs'[r].result>>]_vars

(***************************************************************************)
(* Properties of CreateGroupModal                                          *)
(***************************************************************************)

\* C10: the mutation is invoked only with a name that is non-empty once trimmed;
\* the form is reset and onClose called only when the mutation has succeeded, in
\* that order; a failed validation or a rejected mutation keeps the form's values
\* and calls neither.
C10_SubmitOrder ==
    [][LET invoked == ~mutation.isLoading /\ mutation'.isLoading
           settled == mutation.isLoading /\ ~mutation'.isLoading
           succeeded == settled /\ groups' = Append(groups, mutation.variables)
           rejected == settled /\ groups' = groups
           invalid == submits' # submits /\ ~invoked
           closed == Count(handlerLog', "onClose") # Count(handlerLog, "onClose")
           reset == Count(handlerLog', "form.reset") # Count(handlerLog, "form.reset")
       IN  /\ invoked =>
                /\ mutation'.variables = form.values.name
                /\ Len(trim(mutation'.variables)) > 0
                /\ form'.values = form.values
           /\ (closed \/ reset) =>
                /\ succeeded
                /\ handlerLog' = handlerLog \o <<"resolved", "form.reset", "onClose">>
           /\ succeeded => closed /\ reset /\ form'.values = initialValues
           /\ (invalid \/ rejected) => form'.values = form.values /\ ~closed /\ ~reset
           /\ invalid => form'.errors.name = "Group name is required"]_vars

C10_Witness ==
    /\ Count(handlerLog, "onClose") = 1
    /\ Count(handlerLog, "rejected") = 1
    /\ groups # <<>>
    /\ trim(groups[1]) # groups[1]

====
